---- MODULE Spec2Model ----
(***************************************************************************)
(* The event dispatch engine of src/modules/events.ts: FetchEvent and      *)
(* ScheduledEvent with their side tables (responseMap, passThroughMap,     *)
(* waitUntilMap), the listener registry of EventsModule, and the two       *)
(* dispatch algorithms dispatchFetch and dispatchScheduled.                *)
(*                                                                         *)
(* JavaScript runs every handler to its next await without interleaving,   *)
(* so one action is one such run: from the call (or from the resumption    *)
(* of an await) to the next await or to the return.                        *)
(***************************************************************************)
EXTENDS Integers, Sequences, FiniteSets, TLC

\* ------------------------------------------------------------------ bounds
MaxRegistrations == 2    \* calls of addEventListener
MaxResets == 1           \* calls of resetEventListeners
MaxAccessorCalls == 1    \* calls of response.waitUntil() per dispatch

\* the dispatches (and their events) the state has room for, and the one a
\* caller that makes a single dispatch uses
Dispatches == {1, 2}
Single == {1}

\* ------------------------------------------------------------ plain values
NoUpstream == "undefined"
Origins == {"https://a.example", "https://b.example"}
Upstreams == {NoUpstream, "https://a.example"}

Request(url, headers) == [url |-> url, headers |-> headers]
NoRequest == Request("", {})
\* the inbound requests a caller passes to dispatchFetch
Requests == {Request(u, {"host", "accept"}) : u \in Origins}
              \cup {Request("https://a.example", {"accept"})}

\* request.clone(): a second object with the same url and headers
Clone(req) == Request(req.url, req.headers)
\* mutant: the header is not removed
HeadersDeleteKeeps(req, name) == req
\* request.headers.delete(name)
HeadersDelete(req, name) == Request(req.url, req.headers \ {name})
\* request.headers.set(name, ...)
HeadersSet(req, name) == Request(req.url, req.headers \cup {name})

Error(kind, ref) == [kind |-> kind, ref |-> ref]
NoError == Error("none", 0)
\* the error a listener throws during turn i
Thrown(i) == Error("thrown", i)
\* the reason promise p of the event rejects with
Rejection(p) == Error("rejected", p)
\* FetchError("No fetch handler responded and unable to proxy ...", "upstream")
ConfigError == Error("FetchError: no upstream specified", 0)
\* a failure of the transport itself
TransportError == Error("FetchError: transport", 0)

\* ------------------------------------------------------ listeners (inputs)
\* A listener is what it does with the event while it is invoked (sync) and
\* what an asynchronous continuation of it does later (later).
\* e.respondWith(v), e.waitUntil(v), e.passThroughOnException(), throw, and
\* e.request.headers.set(...), as steps of a listener
RespondWith(fate) == [op |-> "respondWith", fate |-> fate, val |-> 0]
WaitUntil(fate, val) == [op |-> "waitUntil", fate |-> fate, val |-> val]
PassThroughOnException == [op |-> "passThroughOnException", fate |-> "", val |-> 0]
Throw == [op |-> "throw", fate |-> "", val |-> 0]
SetHeader == [op |-> "setHeader", fate |-> "", val |-> 0]

Listener(sync, later) == [sync |-> sync, later |-> later]

\* fates of a value handed to respondWith / waitUntil:
\*   "value"   a plain value or an already fulfilled promise
\*   "resolve" a pending promise that fulfils later
\*   "reject"  a pending promise that rejects later
\*   "never"   a promise that never settles
FetchListeners ==
  { Listener(<<SetHeader>>, <<>>),
    Listener(<<RespondWith("value")>>, <<>>),
    Listener(<<RespondWith("reject")>>, <<>>),
    Listener(<<Throw>>, <<>>),
    Listener(<<PassThroughOnException, Throw>>, <<>>),
    Listener(<<PassThroughOnException, RespondWith("reject")>>, <<>>),
    Listener(<<WaitUntil("resolve", 1), WaitUntil("resolve", 2), RespondWith("value")>>, <<>>),
    Listener(<<WaitUntil("reject", 3)>>, <<>>),
    Listener(<<WaitUntil("never", 4), RespondWith("resolve")>>, <<>>),
    Listener(<<>>, <<RespondWith("value")>>),
    Listener(<<RespondWith("value")>>, <<WaitUntil("resolve", 5)>>) }

ScheduledListeners ==
  { Listener(<<>>, <<>>),
    Listener(<<WaitUntil("resolve", 1), WaitUntil("resolve", 2)>>, <<>>),
    Listener(<<WaitUntil("reject", 3)>>, <<>>),
    Listener(<<WaitUntil("value", 4)>>, <<WaitUntil("resolve", 5)>>),
    Listener(<<Throw>>, <<>>) }

OtherListeners == { Listener(<<>>, <<>>) }

EventTypes == {"fetch", "scheduled", "other"}

\* ------------------------------------------------------------------- state
VARIABLES
  listeners,       \* EventsModule._listeners: event type -> listeners in registration order
  logWarn,         \* what this.log.warn was called with
  transportCalls,  \* the calls of fetch(request) made by dispatchFetch
  registrations,   \* number of addEventListener calls so far
  resets,          \* number of resetEventListeners calls so far
  fresh,           \* a reset has been made and addEventListener was not called since
  pc,              \* where each dispatch is
  eventType,       \* event.type of the event of each dispatch
  request,         \* the caller's request object of each dispatchFetch
  upstreamUrl,     \* the upstreamUrl argument
  eventRequest,    \* event.request, the clone
  responseMap,     \* responseMap.get(event): a promise of the event, 0 if undefined
  passThroughMap,  \* passThroughMap.get(event)
  waitUntilMap,    \* waitUntilMap.get(event): promises in registration order
  promises,        \* the promises handed to the event, in order of creation
  iter,            \* the array the for-of loop of dispatchFetch iterates
  idx,             \* position of the listener of the current turn
  awaited,         \* the promise the dispatch is suspended on, 0 if undefined
  invoked,         \* positions of the listeners invoked so far
  later,           \* continuations of invoked listeners that have not run yet
  outcome,         \* what the dispatch returned or failed with
  calls,           \* the calls of the accessor response.waitUntil()
  agg,             \* Promise.all(waitUntilPromises) of dispatchScheduled
  started          \* the arguments and the registry each dispatch started with

regVars == <<listeners, logWarn, transportCalls, registrations, resets, fresh>>
dVars == <<pc, eventType, request, upstreamUrl, eventRequest, responseMap,
           passThroughMap, waitUntilMap, promises, iter, idx, awaited, invoked,
           later, outcome, calls, agg, started>>
vars == <<regVars, dVars>>

\* ---------------------------------------------------------------- promises
\* A promise handed to an event: how it will settle, whether it has, the value
\* it yields, the turn of the listener that made it, whether that listener was
\* being invoked ("sync") or continued later ("later").
NewPromise(fate, val, by, phase) ==
  [fate |-> fate, state |-> IF fate = "value" THEN "fulfilled" ELSE "pending",
   val |-> val, by |-> by, phase |-> phase]

SeqRange(q) == {q[i] : i \in 1..Len(q)}
MinOf(S) == CHOOSE x \in S : \A y \in S : x <= y

Aggregate(snap, state, vals, err) ==
  [snap |-> snap, state |-> state, vals |-> vals, err |-> err]
NoAggregate == Aggregate(<<>>, "none", <<>>, NoError)

\* mutant: the values in the reverse of the order of the array
AllValuesReversed(proms, snap) ==
  [i \in 1..Len(snap) |-> proms[snap[Len(snap) + 1 - i]].val]
\* the array Promise.all fulfils with: the values in the order of the array
AllValues(proms, snap) == [i \in 1..Len(snap) |-> proms[snap[i]].val]

\* Promise.all(snap) at the moment it is called: it rejects with the reason of
\* the first array entry that has rejected, fulfils when every entry has
\* fulfilled, and is pending otherwise.
PromiseAll(proms, snap) ==
  LET rej == {i \in 1..Len(snap) : proms[snap[i]].state = "rejected"}
  IN IF rej # {}
       THEN Aggregate(snap, "rejected", <<>>, Rejection(snap[MinOf(rej)]))
     ELSE IF \A i \in 1..Len(snap) : proms[snap[i]].state = "fulfilled"
       THEN Aggregate(snap, "fulfilled", AllValues(proms, snap), NoError)
     ELSE Aggregate(snap, "pending", <<>>, NoError)

\* the reaction of a pending Promise.all when promise p settles (proms is the
\* table after p settled)
PromiseAllReact(a, proms, p) ==
  IF a.state # "pending" \/ p \notin SeqRange(a.snap) THEN a
  ELSE IF proms[p].state = "rejected"
    THEN Aggregate(a.snap, "rejected", <<>>, Rejection(p))
  ELSE IF \A i \in 1..Len(a.snap) : proms[a.snap[i]].state = "fulfilled"
    THEN Aggregate(a.snap, "fulfilled", AllValues(proms, a.snap), NoError)
  ELSE a

\* ----------------------------------------------------------------- results
Outcome(type, from, ref, err, vals, accessor) ==
  [type |-> type, from |-> from, ref |-> ref, err |-> err, vals |-> vals,
   accessor |-> accessor]
Pending == Outcome("pending", "", 0, NoError, <<>>, 0)
\* `response.waitUntil = waitUntil; return response`: the response object ref
\* (of "listener": the response promise ref fulfilled with; of "upstream": the
\* response of transport call ref), carrying the accessor of event e
Returned(from, ref, e) == Outcome("response", from, ref, NoError, <<>>, e)
Failed(err) == Outcome("error", "", 0, err, <<>>, 0)
Results(vals) == Outcome("results", "", 0, NoError, vals, 0)

\* ----------------------------------------------------- the event's methods
\* These act on s, the state of one dispatch and its event.
\* mutant: a value already in the slot is kept
respondWithKeepsFirst(s, fate, by, phase) ==
  [s EXCEPT !.promises = Append(@, NewPromise(fate, 0, by, phase)),
            !.responseMap = IF @ # 0 THEN @ ELSE Len(s.promises) + 1]
respondWith(s, fate, by, phase) ==
  [s EXCEPT !.promises = Append(@, NewPromise(fate, 0, by, phase)),
            !.responseMap = Len(s.promises) + 1]

passThroughOnException(s) == [s EXCEPT !.passThroughMap = TRUE]

waitUntil(s, fate, val, by, phase) ==
  [s EXCEPT !.promises = Append(@, NewPromise(fate, val, by, phase)),
            !.waitUntilMap = Append(@, Len(s.promises) + 1)]

\* A simplified (module) handler: the calls it makes on ctx while it runs, how
\* the value it returns settles and, for a scheduled handler, what it yields.
ModuleHandler(ops, ret, val) == [ops |-> ops, ret |-> ret, val |-> val]
\* the bodies of the closures addModuleFetchListener and
\* addModuleScheduledListener register, as steps of a listener
ModuleFetch(h) == [op |-> "moduleFetch", handler |-> h]
ModuleScheduled(h) == [op |-> "moduleScheduled", handler |-> h]

RECURSIVE RunOps(_, _, _, _)
\* mutant: the handler's return value is not handed to respondWith
FetchClosureDropsResult(h, s, by, phase) == RunOps(h.ops, s, by, phase)
\* lines 96-103: ctx is bound to e, so the handler's calls are calls on the
\* event; `e.respondWith(res)` is reached when the handler returned
FetchClosure(h, s, by, phase) ==
  LET r == RunOps(h.ops, s, by, phase) IN
  IF r.thrown # NoError THEN r
  ELSE [s |-> respondWith(r.s, h.ret, by, phase), thrown |-> NoError]
\* mutant: the handler's return value is not registered
ScheduledClosureDropsResult(h, s, by, phase) == RunOps(h.ops, s, by, phase)
\* lines 110-115: `e.waitUntil(Promise.resolve(res))` after the handler returned
ScheduledClosure(h, s, by, phase) ==
  LET r == RunOps(h.ops, s, by, phase) IN
  IF r.thrown # NoError THEN r
  ELSE [s |-> waitUntil(r.s, h.ret, h.val, by, phase), thrown |-> NoError]

\* The body of a listener (or of its continuation) run on the event: the calls
\* it makes in order, up to the first throw.
RunOps(ops, s, by, phase) ==
  IF ops = <<>> THEN [s |-> s, thrown |-> NoError]
  ELSE LET o == Head(ops) IN
    IF o.op = "throw" THEN [s |-> s, thrown |-> Thrown(by)]
    ELSE IF o.op \in {"moduleFetch", "moduleScheduled"} THEN
      LET r == IF o.op = "moduleFetch" THEN FetchClosure(o.handler, s, by, phase)
               ELSE ScheduledClosure(o.handler, s, by, phase)
      IN IF r.thrown # NoError THEN r ELSE RunOps(Tail(ops), r.s, by, phase)
    ELSE RunOps(Tail(ops),
                CASE o.op = "respondWith" -> respondWith(s, o.fate, by, phase)
                  [] o.op = "waitUntil" -> waitUntil(s, o.fate, o.val, by, phase)
                  [] o.op = "passThroughOnException" -> passThroughOnException(s)
                  [] o.op = "setHeader" ->
                       [s EXCEPT !.eventRequest = HeadersSet(@, "x-seen")],
                by, phase)

\* mutant: every turn starts with the pass-through flag unset
InvokeResetsFlag(s, l, i) ==
  RunOps(l.sync,
         [s EXCEPT !.invoked = Append(@, i),
                   !.later = IF l.later = <<>> THEN @
                             ELSE @ \cup {[by |-> i, ops |-> l.later]},
                   !.passThroughMap = FALSE],
         i, "sync")
\* listener(event): the listener at position i is invoked
Invoke(s, l, i) ==
  RunOps(l.sync,
         [s EXCEPT !.invoked = Append(@, i),
                   !.later = IF l.later = <<>> THEN @
                             ELSE @ \cup {[by |-> i, ops |-> l.later]}],
         i, "sync")

\* ------------------------------------------------------------ dispatchFetch
\* mutant: the upstream is fetched whether or not one was given
FallbackAlwaysFetches(s) ==
  LET req == HeadersDelete(s.request, "host") IN
  [s EXCEPT !.request = req,
            !.transportCalls =
               Append(@, [of |-> s.id, object |-> "request", request |-> req]),
            !.pc = "awaitFetch"]
\* mutant: the host header is removed from the clone, and the clone is fetched
FallbackFetchesClone(s) ==
  IF s.upstreamUrl = NoUpstream
    THEN [s EXCEPT !.pc = "done", !.outcome = Failed(ConfigError)]
  ELSE LET req == HeadersDelete(s.eventRequest, "host") IN
    [s EXCEPT !.eventRequest = req,
              !.transportCalls =
                 Append(@, [of |-> s.id, object |-> "event.request", request |-> req]),
              !.pc = "awaitFetch"]
\* lines 166-177: no listener responded
Fallback(s) ==
  IF s.upstreamUrl = NoUpstream
    THEN [s EXCEPT !.pc = "done", !.outcome = Failed(ConfigError)]
  ELSE LET req == HeadersDelete(s.request, "host") IN
    [s EXCEPT !.request = req,
              !.transportCalls =
                 Append(@, [of |-> s.id, object |-> "request", request |-> req]),
              !.pc = "awaitFetch"]

\* mutant: the failure also falls through when an upstream was given
CatchFallsBackToUpstream(s, e) ==
  IF s.passThroughMap \/ s.upstreamUrl # NoUpstream
    THEN Fallback([s EXCEPT !.logWarn = Append(@, "e.stack")])
  ELSE [s EXCEPT !.pc = "done", !.outcome = Failed(e)]
\* mutant: the failure is rethrown whatever the flag says
CatchRethrows(s, e) == [s EXCEPT !.pc = "done", !.outcome = Failed(e)]
\* lines 156-163: the catch block
Catch(s, e) ==
  IF s.passThroughMap
    THEN Fallback([s EXCEPT !.logWarn = Append(@, "e.stack")])
  ELSE [s EXCEPT !.pc = "done", !.outcome = Failed(e)]

\* mutant: a throw of a listener that has set a response is ignored
ForLoopIgnoresThrow(s, arr, i) ==
  IF i > Len(arr) THEN Fallback(s)
  ELSE LET r == Invoke(s, arr[i], i) IN
    IF r.thrown # NoError /\ r.s.responseMap = 0 THEN Catch(r.s, r.thrown)
    ELSE [r.s EXCEPT !.pc = "awaitResponse", !.idx = i,
                     !.awaited = r.s.responseMap]
\* lines 144-149: the for-of loop asks the array arr for its element i; if
\* there is one the listener is invoked and the dispatch suspends at the await
ForLoop(s, arr, i) ==
  IF i > Len(arr) THEN Fallback(s)
  ELSE LET r == Invoke(s, arr[i], i) IN
    IF r.thrown # NoError THEN Catch(r.s, r.thrown)
    ELSE [r.s EXCEPT !.pc = "awaitResponse", !.idx = i,
                     !.awaited = r.s.responseMap]

\* mutant: a response does not end the loop while listeners remain
AfterAwaitRunsOn(s, arr) ==
  IF s.awaited = 0 \/ (s.promises[s.awaited].state = "fulfilled" /\ s.idx < Len(arr))
    THEN ForLoop(s, arr, s.idx + 1)
  ELSE IF s.promises[s.awaited].state = "fulfilled"
    THEN [s EXCEPT !.pc = "done",
                   !.outcome = Returned("listener", s.awaited, s.id)]
  ELSE Catch(s, Rejection(s.awaited))
\* lines 149-155: the await of line 149 resumes. What respondWith is given is a
\* Response or a promise of one (line 25), an object, so `if (response)` fails
\* for undefined alone.
AfterAwait(s, arr) ==
  IF s.awaited = 0 THEN ForLoop(s, arr, s.idx + 1)
  ELSE IF s.promises[s.awaited].state = "fulfilled"
    THEN [s EXCEPT !.pc = "done",
                   !.outcome = Returned("listener", s.awaited, s.id)]
  ELSE Catch(s, Rejection(s.awaited))

\* lines 175-177: the await of fetch(request) resumes
AfterFetch(s, ok) ==
  LET n == CHOOSE n \in 1..Len(s.transportCalls) : s.transportCalls[n].of = s.id IN
  IF ok THEN [s EXCEPT !.pc = "done", !.outcome = Returned("upstream", n, s.id)]
  ELSE [s EXCEPT !.pc = "done", !.outcome = Failed(TransportError)]

\* -------------------------------------------------------- dispatchScheduled
\* mutant: the loop ends after the first listener
ScheduledLoopEndsEarly(s, arr, i) ==
  IF i > Len(arr) THEN [s |-> s, thrown |-> NoError] ELSE Invoke(s, arr[i], i)
\* lines 185-187: every listener from position i on is invoked; a throw leaves
\* the loop and the function
RECURSIVE ScheduledLoop(_, _, _)
ScheduledLoop(s, arr, i) ==
  IF i > Len(arr) THEN [s |-> s, thrown |-> NoError]
  ELSE LET r == Invoke(s, arr[i], i) IN
    IF r.thrown # NoError THEN r ELSE ScheduledLoop(r.s, arr, i + 1)

\* mutant: a throw ends the loop and the tasks registered so far are aggregated
ScheduledReturnsPartial(s, arr) ==
  LET r == ScheduledLoop(s, arr, 1) IN
  [r.s EXCEPT !.pc = "awaitAll",
              !.agg = PromiseAll(r.s.promises, r.s.waitUntilMap)]
\* lines 184-190, up to the await
Scheduled(s, arr) ==
  LET r == ScheduledLoop(s, arr, 1) IN
  IF r.thrown # NoError
    THEN [r.s EXCEPT !.pc = "done", !.outcome = Failed(r.thrown)]
  ELSE [r.s EXCEPT !.pc = "awaitAll",
                   !.agg = PromiseAll(r.s.promises, r.s.waitUntilMap)]

\* line 190: the await of Promise.all resumes
AfterAll(s) ==
  IF s.agg.state = "fulfilled"
    THEN [s EXCEPT !.pc = "done", !.outcome = Results(s.agg.vals)]
  ELSE [s EXCEPT !.pc = "done", !.outcome = Failed(s.agg.err)]

\* ------------------------------------------------------------------ actions
NoIter == [live |-> FALSE, arr |-> <<>>]
NotStarted == [any |-> FALSE, fresh |-> FALSE, registered |-> 0, request |-> NoRequest]

\* the state of dispatch d and of its event
Cur(d) ==
  [id |-> d, pc |-> pc[d], eventType |-> eventType[d], request |-> request[d],
   upstreamUrl |-> upstreamUrl[d], eventRequest |-> eventRequest[d],
   responseMap |-> responseMap[d], passThroughMap |-> passThroughMap[d],
   waitUntilMap |-> waitUntilMap[d], promises |-> promises[d], idx |-> idx[d],
   awaited |-> awaited[d], invoked |-> invoked[d], later |-> later[d],
   outcome |-> outcome[d], calls |-> calls[d],
   agg |-> agg[d], logWarn |-> logWarn, transportCalls |-> transportCalls]

\* mutant: the pass-through flag is one flag of the module, not one per event
CommitOneFlag(d, s) ==
  /\ pc' = [pc EXCEPT ![d] = s.pc]
  /\ eventType' = [eventType EXCEPT ![d] = s.eventType]
  /\ request' = [request EXCEPT ![d] = s.request]
  /\ upstreamUrl' = [upstreamUrl EXCEPT ![d] = s.upstreamUrl]
  /\ eventRequest' = [eventRequest EXCEPT ![d] = s.eventRequest]
  /\ responseMap' = [responseMap EXCEPT ![d] = s.responseMap]
  /\ passThroughMap' = [e \in Dispatches |-> s.passThroughMap]
  /\ waitUntilMap' = [waitUntilMap EXCEPT ![d] = s.waitUntilMap]
  /\ promises' = [promises EXCEPT ![d] = s.promises]
  /\ idx' = [idx EXCEPT ![d] = s.idx]
  /\ awaited' = [awaited EXCEPT ![d] = s.awaited]
  /\ invoked' = [invoked EXCEPT ![d] = s.invoked]
  /\ later' = [later EXCEPT ![d] = s.later]
  /\ outcome' = [outcome EXCEPT ![d] = s.outcome]
  /\ calls' = [calls EXCEPT ![d] = s.calls]
  /\ agg' = [agg EXCEPT ![d] = s.agg]
  /\ logWarn' = s.logWarn
  /\ transportCalls' = s.transportCalls
\* the locals of dispatch d and the side-table entries of its event are written
Commit(d, s) ==
  /\ pc' = [pc EXCEPT ![d] = s.pc]
  /\ eventType' = [eventType EXCEPT ![d] = s.eventType]
  /\ request' = [request EXCEPT ![d] = s.request]
  /\ upstreamUrl' = [upstreamUrl EXCEPT ![d] = s.upstreamUrl]
  /\ eventRequest' = [eventRequest EXCEPT ![d] = s.eventRequest]
  /\ responseMap' = [responseMap EXCEPT ![d] = s.responseMap]
  /\ passThroughMap' = [passThroughMap EXCEPT ![d] = s.passThroughMap]
  /\ waitUntilMap' = [waitUntilMap EXCEPT ![d] = s.waitUntilMap]
  /\ promises' = [promises EXCEPT ![d] = s.promises]
  /\ idx' = [idx EXCEPT ![d] = s.idx]
  /\ awaited' = [awaited EXCEPT ![d] = s.awaited]
  /\ invoked' = [invoked EXCEPT ![d] = s.invoked]
  /\ later' = [later EXCEPT ![d] = s.later]
  /\ outcome' = [outcome EXCEPT ![d] = s.outcome]
  /\ calls' = [calls EXCEPT ![d] = s.calls]
  /\ agg' = [agg EXCEPT ![d] = s.agg]
  /\ logWarn' = s.logWarn
  /\ transportCalls' = s.transportCalls

\* `_listeners = {}` after construction; no dispatch has been made
Init ==
  /\ listeners = [t \in EventTypes |-> <<>>]
  /\ logWarn = <<>>
  /\ transportCalls = <<>>
  /\ registrations = 0
  /\ resets = 0
  /\ fresh = FALSE
  /\ pc = [d \in Dispatches |-> "idle"]
  /\ eventType = [d \in Dispatches |-> "none"]
  /\ request = [d \in Dispatches |-> NoRequest]
  /\ upstreamUrl = [d \in Dispatches |-> NoUpstream]
  /\ eventRequest = [d \in Dispatches |-> NoRequest]
  /\ responseMap = [d \in Dispatches |-> 0]
  /\ passThroughMap = [d \in Dispatches |-> FALSE]
  /\ waitUntilMap = [d \in Dispatches |-> <<>>]
  /\ promises = [d \in Dispatches |-> <<>>]
  /\ iter = [d \in Dispatches |-> NoIter]
  /\ idx = [d \in Dispatches |-> 0]
  /\ awaited = [d \in Dispatches |-> 0]
  /\ invoked = [d \in Dispatches |-> <<>>]
  /\ later = [d \in Dispatches |-> {}]
  /\ outcome = [d \in Dispatches |-> Pending]
  /\ calls = [d \in Dispatches |-> <<>>]
  /\ agg = [d \in Dispatches |-> NoAggregate]
  /\ started = [d \in Dispatches |-> NotStarted]

\* the array the for-of loop of dispatch d iterates: the array the registry
\* holds, or an array the registry does not hold (any more)
IterArray(d) == IF iter[d].live THEN listeners["fetch"] ELSE iter[d].arr

\* addEventListener(type, listener)
AddEventListener(type, l) ==
  /\ registrations < MaxRegistrations
  /\ listeners' = [listeners EXCEPT ![type] = Append(@, l)]
  /\ logWarn' = IF type \notin {"fetch", "scheduled"}
                  THEN Append(logWarn, "Invalid event type") ELSE logWarn
  /\ registrations' = registrations + 1
  /\ fresh' = FALSE
  /\ UNCHANGED <<transportCalls, resets, dVars>>

\* addModuleFetchListener(listener, environment): lines 92-104
AddModuleFetchListener(h) == AddEventListener("fetch", Listener(<<ModuleFetch(h)>>, <<>>))

\* addModuleScheduledListener(listener, environment): lines 106-116
AddModuleScheduledListener(h) ==
  AddEventListener("scheduled", Listener(<<ModuleScheduled(h)>>, <<>>))

\* mutant: the reset drops every entry but the one of "fetch"
ResetKeepsFetch ==
  /\ resets < MaxResets
  /\ listeners' = [t \in EventTypes |-> IF t = "fetch" THEN listeners[t] ELSE <<>>]
  /\ resets' = resets + 1
  /\ fresh' = TRUE
  /\ UNCHANGED <<logWarn, transportCalls, registrations, dVars>>

\* mutant: the arrays of the registry are emptied in place
ResetEmptiesArrays ==
  /\ resets < MaxResets
  /\ listeners' = [t \in EventTypes |-> <<>>]
  /\ resets' = resets + 1
  /\ fresh' = TRUE
  /\ UNCHANGED <<logWarn, transportCalls, registrations, dVars>>

\* resetEventListeners(): `this._listeners = {}`. The arrays of the old object
\* are not emptied: a for-of loop suspended on one of them keeps it, and no
\* later registration can reach it.
ResetEventListeners ==
  /\ resets < MaxResets
  /\ listeners' = [t \in EventTypes |-> <<>>]
  /\ iter' = [d \in Dispatches |->
                IF iter[d].live THEN [live |-> FALSE, arr |-> listeners["fetch"]]
                ELSE iter[d]]
  /\ resets' = resets + 1
  /\ fresh' = TRUE
  /\ UNCHANGED <<logWarn, transportCalls, registrations, pc, eventType, request, upstreamUrl,
                 eventRequest, responseMap, passThroughMap, waitUntilMap,
                 promises, idx, awaited, invoked, later, outcome, calls,
                 agg, started>>

CanStart(d) == pc[d] = "idle"

\* dispatchFetch(request, upstreamUrl), up to its first await or its return
DispatchFetch(d, req, up) ==
  /\ CanStart(d)
  /\ Commit(d, ForLoop([Cur(d) EXCEPT !.eventType = "fetch", !.request = req,
                                      !.upstreamUrl = up,
                                      !.eventRequest = Clone(req)],
                       listeners["fetch"], 1))
  \* `this._listeners.fetch ?? []`: without an entry the loop runs over an
  \* array of its own
  /\ iter' = [iter EXCEPT ![d] = [live |-> listeners["fetch"] # <<>>, arr |-> <<>>]]
  /\ started' = [started EXCEPT ![d] = [any |-> TRUE, fresh |-> fresh,
                                       registered |-> Len(listeners["fetch"]),
                                       request |-> req]]
  /\ UNCHANGED <<listeners, registrations, resets, fresh>>

\* mutant: the await also waits for the background tasks
ResumeResponseAfterTasks(d) ==
  /\ pc[d] = "awaitResponse"
  /\ awaited[d] # 0 => promises[d][awaited[d]].state # "pending"
  /\ \A i \in 1..Len(waitUntilMap[d]) : promises[d][waitUntilMap[d][i]].state = "fulfilled"
  /\ Commit(d, AfterAwait(Cur(d), IterArray(d)))
  /\ UNCHANGED <<listeners, registrations, resets, fresh, iter, started>>

\* the await of line 149 resumes: with undefined at once, with a promise when
\* it has settled
ResumeResponse(d) ==
  /\ pc[d] = "awaitResponse"
  /\ awaited[d] # 0 => promises[d][awaited[d]].state # "pending"
  /\ Commit(d, AfterAwait(Cur(d), IterArray(d)))
  /\ UNCHANGED <<listeners, registrations, resets, fresh, iter, started>>

\* the transport answers or fails
ResumeFetch(d, ok) ==
  /\ pc[d] = "awaitFetch"
  /\ Commit(d, AfterFetch(Cur(d), ok))
  /\ UNCHANGED <<listeners, registrations, resets, fresh, iter, started>>

\* dispatchScheduled(), up to its await or its throw
DispatchScheduled(d) ==
  /\ CanStart(d)
  /\ Commit(d, Scheduled([Cur(d) EXCEPT !.eventType = "scheduled"],
                         listeners["scheduled"]))
  /\ started' = [started EXCEPT ![d] = [any |-> TRUE, fresh |-> fresh,
                                       registered |-> Len(listeners["scheduled"]),
                                       request |-> NoRequest]]
  \* the array the loop of line 185 runs over
  /\ iter' = [iter EXCEPT ![d] = [live |-> FALSE, arr |-> listeners["scheduled"]]]
  /\ UNCHANGED <<listeners, registrations, resets, fresh>>

\* the await of line 190 resumes
ResumeScheduled(d) ==
  /\ pc[d] = "awaitAll"
  /\ agg[d].state # "pending"
  /\ Commit(d, AfterAll(Cur(d)))
  /\ UNCHANGED <<listeners, registrations, resets, fresh, iter, started>>

\* mutant: an aggregate looks at the task list again whenever a promise settles
SettlePromiseRereadsList(s, p) ==
  LET proms == [s.promises EXCEPT ![p].state =
                  IF s.promises[p].fate = "reject" THEN "rejected" ELSE "fulfilled"]
  IN [s EXCEPT !.promises = proms,
               !.calls = [k \in 1..Len(s.calls) |-> PromiseAll(proms, s.waitUntilMap)],
               !.agg = IF s.agg.state = "none" THEN s.agg
                       ELSE PromiseAll(proms, s.waitUntilMap)]
\* promise p of the event of dispatch d settles; the Promise.all calls that
\* hold it react
SettlePromise(s, p) ==
  LET proms == [s.promises EXCEPT ![p].state =
                  IF s.promises[p].fate = "reject" THEN "rejected" ELSE "fulfilled"]
  IN [s EXCEPT !.promises = proms,
               !.calls = [k \in 1..Len(s.calls) |-> PromiseAllReact(s.calls[k], proms, p)],
               !.agg = PromiseAllReact(s.agg, proms, p)]

Settle(d, p) ==
  /\ p \in 1..Len(promises[d])
  /\ promises[d][p].state = "pending"
  /\ promises[d][p].fate \in {"resolve", "reject"}
  /\ Commit(d, SettlePromise(Cur(d), p))
  /\ UNCHANGED <<listeners, registrations, resets, fresh, iter, started>>

\* a continuation of an invoked listener runs
Continue(s, c) == RunOps(c.ops, [s EXCEPT !.later = @ \ {c}], c.by, "later").s

RunLater(d, c) ==
  /\ c \in later[d]
  /\ Commit(d, Continue(Cur(d), c))
  /\ UNCHANGED <<listeners, registrations, resets, fresh, iter, started>>

\* lines 139-143: the accessor, up to its await
Accessor(s) == [s EXCEPT !.calls = Append(@, PromiseAll(s.promises, s.waitUntilMap))]

\* the caller calls response.waitUntil() on the response it was returned
CallAccessor(d) ==
  /\ outcome[d].type = "response"
  /\ Len(calls[d]) < MaxAccessorCalls
  /\ Commit(d, Accessor(Cur(d)))
  /\ UNCHANGED <<listeners, registrations, resets, fresh, iter, started>>

Next ==
  \/ \E l \in FetchListeners : AddEventListener("fetch", l)
  \/ \E l \in ScheduledListeners : AddEventListener("scheduled", l)
  \/ \E l \in OtherListeners : AddEventListener("other", l)
  \/ ResetEventListeners
  \/ \E d \in Single, req \in Requests, up \in Upstreams : DispatchFetch(d, req, up)
  \/ \E d \in Single : ResumeResponse(d)
  \/ \E d \in Single, ok \in BOOLEAN : ResumeFetch(d, ok)
  \/ \E d \in Single : DispatchScheduled(d)
  \/ \E d \in Single : ResumeScheduled(d)
  \/ \E d \in Single : \E p \in 1..Len(promises[d]) : Settle(d, p)
  \/ \E d \in Single : \E c \in later[d] : RunLater(d, c)
  \/ \E d \in Single : CallAccessor(d)

\* every listener registry, one dispatch of either kind
Spec == Init /\ [][Next]_vars

\* a registry of fetch listeners and one dispatchFetch
NextFetch ==
  \/ \E l \in FetchListeners : AddEventListener("fetch", l)
  \/ ResetEventListeners
  \/ \E d \in Single, req \in Requests, up \in Upstreams : DispatchFetch(d, req, up)
  \/ \E d \in Single : ResumeResponse(d)
  \/ \E d \in Single, ok \in BOOLEAN : ResumeFetch(d, ok)
  \/ \E d \in Single : \E p \in 1..Len(promises[d]) : Settle(d, p)
  \/ \E d \in Single : \E c \in later[d] : RunLater(d, c)
  \/ \E d \in Single : CallAccessor(d)

SpecFetch == Init /\ [][NextFetch]_vars

\* a registry of scheduled listeners and one dispatchScheduled
NextScheduled ==
  \/ \E l \in ScheduledListeners : AddEventListener("scheduled", l)
  \/ ResetEventListeners
  \/ \E d \in Single : DispatchScheduled(d)
  \/ \E d \in Single : ResumeScheduled(d)
  \/ \E d \in Single : \E p \in 1..Len(promises[d]) : Settle(d, p)
  \/ \E d \in Single : \E c \in later[d] : RunLater(d, c)

SpecScheduled == Init /\ [][NextScheduled]_vars

\* ------------------------------------------------- what a dispatch has done
IsFetch(d) == eventType[d] = "fetch"
IsScheduled(d) == eventType[d] = "scheduled"
UpTo(n) == [i \in 1..n |-> i]
MaxOf(S) == CHOOSE x \in S : \A y \in S : y <= x

\* the invocation of listener l makes the call o (o is not behind a throw)
Calls(l, o) ==
  \E n \in 1..Len(l.sync) : l.sync[n] = o /\ \A m \in 1..(n - 1) : l.sync[m] # Throw

\* the turns in which the invoked listener threw
Throwers(d) == {i \in SeqRange(invoked[d]) : Calls(IterArray(d)[i], Throw)}
\* an invoked listener called passThroughOnException while it was invoked
Granted(d) ==
  \E j \in SeqRange(invoked[d]) : Calls(IterArray(d)[j], PassThroughOnException)
\* the await of line 149 has resumed with a rejection
AwaitRejected(d) ==
  /\ pc[d] \in {"awaitFetch", "done"}
  /\ awaited[d] # 0
  /\ promises[d][awaited[d]].state = "rejected"

\* the listener failure of a fetch dispatch, and the turn it happened in
FailureOf(d) ==
  IF Throwers(d) # {} THEN Thrown(MinOf(Throwers(d)))
  ELSE IF AwaitRejected(d) THEN Rejection(awaited[d])
  ELSE NoError
FailedTurn(d) == IF Throwers(d) # {} THEN MinOf(Throwers(d)) ELSE idx[d]

\* the promises handed to waitUntil and those handed to respondWith
Tasks(d) == SeqRange(waitUntilMap[d])
Responses(d) == (1..Len(promises[d])) \ Tasks(d)
TransportCallsOf(d) == {n \in 1..Len(transportCalls) : transportCalls[n].of = d}

\* ------------------------------------------------------------------- claims

\* the first respondWith call of the dispatch is made by listener k while it is
\* invoked
SetsFirst(d, k) ==
  /\ Responses(d) # {}
  /\ promises[d][MinOf(Responses(d))].phase = "sync"
  /\ promises[d][MinOf(Responses(d))].by = k
\* the response listener k had set when its invocation returned
SetBy(d, k) ==
  MaxOf({p \in Responses(d) : promises[d][p].phase = "sync" /\ promises[d][p].by = k})

\* C1: when listener k is the first to set a response, dispatchFetch has
\* invoked exactly the listeners 1..k, in that order, and never one after k; if
\* no listener fails, what it returns is the response listener k set, carrying
\* the accessor of this dispatch's event.
C1_FirstResponderWins ==
  \A d \in Dispatches, k \in 1..MaxRegistrations :
    IsFetch(d) /\ SetsFirst(d, k) =>
      /\ invoked[d] = UpTo(k)
      /\ pc[d] = "done" /\ FailureOf(d) = NoError =>
           outcome[d] = Returned("listener", SetBy(d, k), d)

\* C1 witness: listener 1 of two responded; listener 2 was never invoked
C1_Witness ==
  \E d \in Dispatches :
    /\ IsFetch(d) /\ SetsFirst(d, 1) /\ Len(IterArray(d)) = 2
    /\ pc[d] = "done" /\ outcome[d].type = "response" /\ invoked[d] = <<1>>

\* C2: a listener failure (a throw, or the rejection of the awaited response)
\* with the pass-through flag unset makes dispatchFetch fail with that very
\* error, upstream or not; no later listener is invoked, the transport is not
\* called.
C2_FailureIsPropagated ==
  \A d \in Dispatches :
    IsFetch(d) /\ FailureOf(d) # NoError /\ ~passThroughMap[d] =>
      /\ pc[d] = "done"
      /\ outcome[d] = Failed(FailureOf(d))
      /\ invoked[d] = UpTo(FailedTurn(d))
      /\ TransportCallsOf(d) = {}

\* C2 witness: the first of two listeners failed, an upstream was given
C2_Witness ==
  \E d \in Dispatches :
    /\ IsFetch(d) /\ FailureOf(d) # NoError /\ ~passThroughMap[d]
    /\ upstreamUrl[d] # NoUpstream /\ Len(IterArray(d)) = 2 /\ invoked[d] = <<1>>
    /\ outcome[d].type = "error"

\* C3: a listener failure with the pass-through flag set is not propagated and
\* ends the loop: without an upstream the dispatch fails with the configuration
\* error, with one it calls the transport once and ends as the transport does.
C3_FailureFallsBack ==
  \A d \in Dispatches :
    IsFetch(d) /\ FailureOf(d) # NoError /\ Granted(d) =>
      /\ outcome[d] # Failed(FailureOf(d))
      /\ invoked[d] = UpTo(FailedTurn(d))
      /\ IF upstreamUrl[d] = NoUpstream
           THEN /\ pc[d] = "done"
                /\ outcome[d] = Failed(ConfigError)
                /\ TransportCallsOf(d) = {}
         ELSE /\ Cardinality(TransportCallsOf(d)) = 1
              /\ pc[d] \in {"awaitFetch", "done"}
              /\ pc[d] = "done" =>
                   \/ outcome[d] = Returned("upstream", MinOf(TransportCallsOf(d)), d)
                   \/ outcome[d] = Failed(TransportError)

\* C3 witness: the first of two listeners granted pass-through and failed; the
\* dispatch returned the upstream response
C3_Witness ==
  \E d \in Dispatches :
    /\ IsFetch(d) /\ FailureOf(d) # NoError /\ Granted(d)
    /\ Len(IterArray(d)) = 2 /\ invoked[d] = <<1>>
    /\ outcome[d].type = "response" /\ outcome[d].from = "upstream"

\* the loop of dispatchFetch has ended without a response and without a failure
Exhausted(d) ==
  /\ IsFetch(d) /\ pc[d] \in {"awaitFetch", "done"}
  /\ FailureOf(d) = NoError /\ outcome[d].from # "listener"

\* C4: when the listeners are exhausted without a response and there is no
\* upstream, dispatchFetch fails with the configuration error and does not call
\* the transport; the transport is called at most once per dispatch, and only
\* with an upstream and no listener response returned.
C4_ConfigurationError ==
  \A d \in Dispatches :
    IsFetch(d) =>
      /\ Exhausted(d) =>
           /\ Len(invoked[d]) >= started[d].registered
           /\ upstreamUrl[d] = NoUpstream =>
                /\ pc[d] = "done"
                /\ outcome[d] = Failed(ConfigError)
                /\ TransportCallsOf(d) = {}
      /\ Cardinality(TransportCallsOf(d)) <= 1
      /\ TransportCallsOf(d) # {} =>
           upstreamUrl[d] # NoUpstream /\ outcome[d].from # "listener"

\* C4 witness: two listeners ran, none responded, no upstream was given
C4_Witness ==
  \E d \in Dispatches :
    /\ Exhausted(d) /\ upstreamUrl[d] = NoUpstream
    /\ invoked[d] = <<1, 2>> /\ outcome[d] = Failed(ConfigError)

\* the fetch of dispatch d ends as the transport call n does
EndsAsTransport(d, n) ==
  /\ pc[d] \in {"awaitFetch", "done"}
  /\ pc[d] = "done" =>
       \/ outcome[d] = Returned("upstream", n, d)
       \/ outcome[d] = Failed(TransportError)

\* C5 as stated: with no fetch listener and an upstream U, dispatchFetch makes
\* one transport request addressed to U, without a host header, and returns
\* its response.
C5_AddressedToUpstream ==
  \A d \in Dispatches :
    IsFetch(d) /\ started[d].registered = 0 /\ upstreamUrl[d] # NoUpstream =>
      /\ invoked[d] = <<>>
      /\ Cardinality(TransportCallsOf(d)) = 1
      /\ \A n \in TransportCallsOf(d) :
           /\ transportCalls[n].request.url = upstreamUrl[d]
           /\ "host" \notin transportCalls[n].request.headers
           /\ EndsAsTransport(d, n)

\* C5 amended: with no fetch listener and an upstream given, dispatchFetch
\* makes one transport request with the inbound request, addressed to that
\* request's own url whatever the upstream is, without a host header, and
\* returns its response.
C5_AddressedToRequestUrl ==
  \A d \in Dispatches :
    IsFetch(d) /\ started[d].registered = 0 /\ upstreamUrl[d] # NoUpstream =>
      /\ invoked[d] = <<>>
      /\ Cardinality(TransportCallsOf(d)) = 1
      /\ \A n \in TransportCallsOf(d) :
           /\ transportCalls[n].request.url = started[d].request.url
           /\ transportCalls[n].request.headers = started[d].request.headers \ {"host"}
           /\ EndsAsTransport(d, n)

\* C5 witness: a request to another origin than the upstream, with a host
\* header, was fetched and its response returned
C5_Witness ==
  \E d \in Dispatches :
    /\ IsFetch(d) /\ started[d].registered = 0 /\ upstreamUrl[d] # NoUpstream
    /\ started[d].request.url # upstreamUrl[d]
    /\ "host" \in started[d].request.headers
    /\ outcome[d].type = "response" /\ outcome[d].from = "upstream"

\* C6 as stated: the caller's request is never modified; the host header is
\* removed from the duplicate and the duplicate is what the transport gets.
C6_OriginalUnmodified ==
  \A d \in Dispatches :
    IsFetch(d) =>
      /\ request[d] = started[d].request
      /\ \A n \in TransportCallsOf(d) : transportCalls[n].object = "event.request"

\* C6 amended: listeners only ever see the duplicate, which dispatchFetch never
\* modifies; the caller's request is unmodified until the fallback fetch, for
\* which the host header is removed from the caller's request itself, and that
\* request is what the transport gets.
C6_HostRemovedFromOriginal ==
  \A d \in Dispatches :
    IsFetch(d) =>
      /\ eventRequest[d] \in {Clone(started[d].request),
                              HeadersSet(Clone(started[d].request), "x-seen")}
      /\ eventRequest[d].headers # started[d].request.headers =>
           \E i \in SeqRange(invoked[d]) : Calls(IterArray(d)[i], SetHeader)
      /\ TransportCallsOf(d) = {} => request[d] = started[d].request
      /\ \A n \in TransportCallsOf(d) :
           /\ request[d] = HeadersDelete(started[d].request, "host")
           /\ transportCalls[n].object = "request"
           /\ transportCalls[n].request = request[d]

\* C6 witness: a listener changed the duplicate, then the fallback fetch removed
\* the host header of the caller's request; the duplicate still has it
C6_Witness ==
  \E d \in Dispatches :
    /\ IsFetch(d) /\ TransportCallsOf(d) # {}
    /\ "host" \in started[d].request.headers
    /\ "host" \notin request[d].headers /\ "x-seen" \notin request[d].headers
    /\ "host" \in eventRequest[d].headers /\ "x-seen" \in eventRequest[d].headers

\* the state of promise p of the event of dispatch d
StateOf(d, p) == promises[d][p].state

\* C7: a call of the accessor of a returned response takes the background
\* tasks registered so far, among them every task a listener registered while
\* it was invoked; it fulfils, once all of them have, with their values in
\* registration order, and rejects as soon as one of them has rejected, with
\* the reason of a rejected one.
C7_AccessorAggregates ==
  \A d \in Dispatches : \A k \in 1..Len(calls[d]) :
    LET a == calls[d][k]
        n == Len(a.snap)
    IN /\ outcome[d].type = "response"
       /\ n <= Len(waitUntilMap[d])
       /\ a.snap = SubSeq(waitUntilMap[d], 1, n)
       /\ \A p \in Tasks(d) : promises[d][p].phase = "sync" => p \in SeqRange(a.snap)
       /\ a.state = "fulfilled" <=> \A i \in 1..n : StateOf(d, a.snap[i]) = "fulfilled"
       /\ a.state = "fulfilled" =>
            a.vals = [i \in 1..n |-> promises[d][waitUntilMap[d][i]].val]
       /\ a.state = "rejected" <=> \E i \in 1..n : StateOf(d, a.snap[i]) = "rejected"
       /\ a.state = "rejected" =>
            \E i \in 1..n : /\ StateOf(d, a.snap[i]) = "rejected"
                            /\ a.err = Rejection(a.snap[i])

\* C7 witness: the tasks yielding 1 and 2 have fulfilled and the accessor has
\* fulfilled with <<1, 2>>
C7_Witness ==
  \E d \in Dispatches : \E k \in 1..Len(calls[d]) :
    calls[d][k].state = "fulfilled" /\ calls[d][k].vals = <<1, 2>>

\* C8: a dispatch suspended on a response that has fulfilled can return at
\* once, whatever the state of the background tasks; a dispatch never fails
\* with the rejection of a background task, and a returned response stays the
\* one the listener set.
C8_TasksDoNotDelayResponse ==
  \A d \in Dispatches :
    IsFetch(d) =>
      /\ pc[d] = "awaitResponse" /\ awaited[d] # 0
           /\ StateOf(d, awaited[d]) = "fulfilled" => ENABLED ResumeResponse(d)
      /\ outcome[d].type = "error" =>
           \A p \in Tasks(d) : outcome[d].err # Rejection(p)
      /\ outcome[d].type = "response" /\ outcome[d].from = "listener" =>
           outcome[d].ref \in Responses(d)

\* C8 witness: the response was returned while one background task had
\* rejected and another, which never settles, was pending
C8_Witness ==
  \E d \in Dispatches :
    /\ IsFetch(d) /\ pc[d] = "done"
    /\ outcome[d].type = "response" /\ outcome[d].from = "listener"
    /\ \E p \in Tasks(d) : StateOf(d, p) = "rejected"
    /\ \E p \in Tasks(d) : StateOf(d, p) = "pending" /\ promises[d][p].fate = "never"

\* the tasks the listeners of arr register while they are invoked
SyncTasks(arr) ==
  UNION {{<<i, n>> : n \in {m \in 1..Len(arr[i].sync) : arr[i].sync[m].op = "waitUntil"}} :
           i \in 1..Len(arr)}

\* C9: when no listener throws, dispatchScheduled invokes every registered
\* scheduled listener in registration order before it aggregates, so the
\* aggregate takes every task registered during the invocations; the dispatch
\* fails only with the rejection of one of these tasks, and otherwise returns
\* their values in registration order.
C9_ScheduledRunsAll ==
  \A d \in Dispatches :
    IsScheduled(d) /\ Throwers(d) = {} =>
      /\ invoked[d] = UpTo(Len(IterArray(d)))
      /\ Len(IterArray(d)) = started[d].registered
      /\ Len(agg[d].snap) = Cardinality(SyncTasks(IterArray(d)))
      /\ SeqRange(agg[d].snap) = {p \in Tasks(d) : promises[d][p].phase = "sync"}
      /\ agg[d].snap = SubSeq(waitUntilMap[d], 1, Len(agg[d].snap))
      /\ pc[d] \in {"awaitAll", "done"}
      /\ outcome[d].type \in {"pending", "error", "results"}
      /\ outcome[d].type = "error" =>
           \E p \in SeqRange(agg[d].snap) :
             StateOf(d, p) = "rejected" /\ outcome[d].err = Rejection(p)
      /\ outcome[d].type = "results" =>
           /\ \A p \in SeqRange(agg[d].snap) : StateOf(d, p) = "fulfilled"
           /\ outcome[d].vals =
                [i \in 1..Len(agg[d].snap) |-> promises[d][waitUntilMap[d][i]].val]

\* C9 witness: the first listener's task rejected; the second listener was
\* invoked, its tasks were aggregated, and the dispatch failed with the
\* rejection
C9_Witness ==
  \E d \in Dispatches :
    /\ IsScheduled(d) /\ invoked[d] = <<1, 2>> /\ Len(agg[d].snap) = 3
    /\ promises[d][1].fate = "reject"
    /\ pc[d] = "done" /\ outcome[d] = Failed(Rejection(1))

\* C10: a dispatch started after a reset, before any new registration, invokes
\* no listener: dispatchFetch ends in the configuration error or in the
\* fallback fetch, dispatchScheduled returns an empty array.
C10_ResetRevertsToZeroListeners ==
  \A d \in Dispatches :
    started[d].any /\ started[d].fresh =>
      /\ invoked[d] = <<>>
      /\ IsFetch(d) =>
           IF upstreamUrl[d] = NoUpstream
             THEN /\ pc[d] = "done"
                  /\ outcome[d] = Failed(ConfigError)
                  /\ TransportCallsOf(d) = {}
           ELSE /\ Cardinality(TransportCallsOf(d)) = 1
                /\ \A n \in TransportCallsOf(d) : EndsAsTransport(d, n)
      /\ IsScheduled(d) =>
           /\ pc[d] \in {"awaitAll", "done"}
           /\ agg[d] = Aggregate(<<>>, "fulfilled", <<>>, NoError)
           /\ pc[d] = "done" => outcome[d] = Results(<<>>)

\* C10 witness: two listeners were registered, the registry was reset, and a
\* fetch dispatch without upstream then failed with the configuration error
C10_Witness ==
  \E d \in Dispatches :
    /\ started[d].any /\ started[d].fresh /\ registrations = 2
    /\ IsFetch(d) /\ pc[d] = "done" /\ outcome[d] = Failed(ConfigError)

\* ===================================================== interleaved dispatches
\* fetch listeners of a registry that several dispatches run against
ConcurrentListeners ==
  { Listener(<<PassThroughOnException, Throw>>, <<>>),
    Listener(<<Throw>>, <<>>),
    Listener(<<WaitUntil("resolve", 1), RespondWith("resolve")>>, <<>>),
    Listener(<<PassThroughOnException, RespondWith("reject")>>, <<>>),
    Listener(<<PassThroughOnException>>, <<>>) }

\* the dispatchFetch calls made against it: one with an upstream, one without
ConcurrentCalls ==
  { [request |-> Request("https://a.example", {"host", "accept"}),
     upstreamUrl |-> "https://a.example"],
    [request |-> Request("https://b.example", {"host", "accept"}),
     upstreamUrl |-> NoUpstream] }

\* no for-of loop is suspended on the array the registry holds
Quiet == \A d \in Dispatches : pc[d] = "awaitResponse" => ~iter[d].live
\* the dispatches are numbered in the order they are called
InOrder(d) == \A e \in Dispatches : e < d => pc[e] # "idle"

\* several dispatchFetch calls in flight at once; listeners are registered
\* while no loop iterates the registry's array
NextConcurrent ==
  \/ \E l \in ConcurrentListeners : Quiet /\ AddEventListener("fetch", l)
  \/ ResetEventListeners
  \/ \E d \in Dispatches, c \in ConcurrentCalls :
       InOrder(d) /\ DispatchFetch(d, c.request, c.upstreamUrl)
  \/ \E d \in Dispatches : ResumeResponse(d)
  \/ \E d \in Dispatches, ok \in BOOLEAN : ResumeFetch(d, ok)
  \/ \E d \in Dispatches : \E p \in 1..Len(promises[d]) : Settle(d, p)
  \/ \E d \in Dispatches : CallAccessor(d)

SpecConcurrent == Init /\ [][NextConcurrent]_vars

\* dispatchFetch(req, up) called as the only dispatch of a module whose
\* registry holds arr: the state of dispatch d before its first step
Alone(d, req, up) ==
  [id |-> d, pc |-> "idle", eventType |-> "fetch", request |-> req,
   upstreamUrl |-> up, eventRequest |-> Clone(req), responseMap |-> 0,
   passThroughMap |-> FALSE, waitUntilMap |-> <<>>, promises |-> <<>>,
   idx |-> 0, awaited |-> 0, invoked |-> <<>>, later |-> {},
   outcome |-> Pending, calls |-> <<>>, agg |-> NoAggregate,
   logWarn |-> <<>>, transportCalls |-> <<>>]

\* the dispatch run to its end with nothing else going on: every await resumes
\* as soon as what it waits for has settled; the transport answers (ok) or fails
RECURSIVE RunToEnd(_, _, _)
RunToEnd(s, arr, ok) ==
  IF s.pc = "awaitFetch" THEN AfterFetch(s, ok)
  ELSE IF s.pc # "awaitResponse" THEN s
  ELSE IF s.awaited = 0 \/ s.promises[s.awaited].state # "pending"
    THEN RunToEnd(AfterAwait(s, arr), arr, ok)
  ELSE IF s.promises[s.awaited].fate \in {"resolve", "reject"}
    THEN RunToEnd(AfterAwait(SettlePromise(s, s.awaited), arr), arr, ok)
  ELSE s

RunAlone(d, req, up, arr, ok) == RunToEnd(ForLoop(Alone(d, req, up), arr, 1), arr, ok)

\* the array dispatch d iterated: what the registry held when it started
Iterated(d) == SubSeq(IterArray(d), 1, started[d].registered)

\* dispatch d ended as the run a did: the same response of the same promise of
\* its event (or the response of its own transport call, made with the same
\* request), or the same error
SameOutcome(d, a) ==
  /\ outcome[d].type = a.outcome.type /\ outcome[d].from = a.outcome.from
  /\ outcome[d].err = a.outcome.err /\ outcome[d].accessor = a.outcome.accessor
  /\ outcome[d].from = "listener" => outcome[d].ref = a.outcome.ref
  /\ outcome[d].from = "upstream" =>
       /\ transportCalls[outcome[d].ref].of = d
       /\ transportCalls[outcome[d].ref].request = a.transportCalls[a.outcome.ref].request

\* C11: whatever other dispatches do in between, a finished dispatchFetch has
\* the outcome of the same call made alone, its event has the response slot,
\* the pass-through flag and the task list of that run, and every call of its
\* accessor covers that task list and fulfils with that run's values.
C11_InterleavingIsInvisible ==
  \A d \in Dispatches :
    IsFetch(d) /\ pc[d] = "done" =>
      \E ok \in BOOLEAN :
        LET a == RunAlone(d, started[d].request, upstreamUrl[d], Iterated(d), ok) IN
        /\ a.pc = "done"
        /\ SameOutcome(d, a)
        /\ invoked[d] = a.invoked
        /\ responseMap[d] = a.responseMap
        /\ passThroughMap[d] = a.passThroughMap
        /\ waitUntilMap[d] = a.waitUntilMap
        /\ [p \in 1..Len(promises[d]) |-> promises[d][p].fate]
             = [p \in 1..Len(a.promises) |-> a.promises[p].fate]
        /\ \A k \in 1..Len(calls[d]) :
             /\ calls[d][k].snap = a.waitUntilMap
             /\ calls[d][k].state = "fulfilled" =>
                  calls[d][k].vals = AllValues(a.promises, a.waitUntilMap)

\* C11 witness: dispatch 2 was called while dispatch 1 was suspended and made
\* its transport call first; dispatch 1 failed, dispatch 2 returned a response
C11_Witness ==
  /\ pc[1] = "done" /\ pc[2] = "done"
  /\ Len(transportCalls) = 2
  /\ transportCalls[1].of = 2 /\ transportCalls[2].of = 1
  /\ outcome[1].type = "error" /\ outcome[2].type = "response"

\* the pass-through flag of every event is as it was or set
FlagStaysSet == \A d \in Dispatches : passThroughMap[d] => passThroughMap'[d]

\* the flag of dispatch d is set exactly when a listener invoked by d called
\* passThroughOnException; a failure with the flag set is not propagated and
\* ends in the fallback
FlagIsOwn ==
  \A d \in Dispatches :
    /\ passThroughMap[d] <=> IsFetch(d) /\ Granted(d)
    /\ IsFetch(d) /\ FailureOf(d) # NoError /\ passThroughMap[d] =>
         /\ pc[d] \in {"awaitFetch", "done"}
         /\ outcome[d] # Failed(FailureOf(d))
         /\ invoked[d] = UpTo(FailedTurn(d))
         /\ logWarn # <<>>
         /\ IF upstreamUrl[d] = NoUpstream
              THEN outcome[d] = Failed(ConfigError) /\ TransportCallsOf(d) = {}
            ELSE Cardinality(TransportCallsOf(d)) = 1

\* C12: the pass-through flag of a dispatch is unset until a listener of that
\* dispatch calls passThroughOnException and is never unset afterwards, so the
\* failure of that listener or of a later one takes the fallback path; calls
\* made in one dispatch leave the flag of every other dispatch as it is.
C12_FlagIsMonotonic == []FlagIsOwn /\ [][FlagStaysSet]_vars

\* C12 witness: listener 1 set the flag and did not fail, listener 2 threw, and
\* the dispatch returned the upstream response; the flag of the other dispatch
\* is unset
C12_Witness ==
  \E d, e \in Dispatches :
    /\ IsFetch(d) /\ invoked[d] = <<1, 2>> /\ passThroughMap[d]
    /\ ~Calls(IterArray(d)[2], PassThroughOnException)
    /\ FailureOf(d) = Thrown(2)
    /\ outcome[d].type = "response" /\ outcome[d].from = "upstream"
    /\ e # d /\ IsFetch(e) /\ ~passThroughMap[e]

\* ========================================================= the response slot
\* C13: a response returned by dispatchFetch was handed to respondWith by the
\* listener of the turn that returned it, in that turn; a value put in the slot
\* by another listener's continuation does not end the turn with a response.
C13_ResponseOfOwnTurn ==
  \A d \in Dispatches :
    IsFetch(d) /\ outcome[d].type = "response" /\ outcome[d].from = "listener" =>
      promises[d][outcome[d].ref].by = idx[d]

\* fetch listeners that call respondWith several times in one invocation, or
\* call it and then throw
TurnListeners ==
  { Listener(<<SetHeader>>, <<>>),
    Listener(<<RespondWith("reject"), RespondWith("value")>>, <<>>),
    Listener(<<RespondWith("value"), RespondWith("reject")>>, <<>>),
    Listener(<<RespondWith("resolve"), RespondWith("resolve")>>, <<>>),
    Listener(<<RespondWith("value"), Throw>>, <<>>),
    Listener(<<PassThroughOnException, RespondWith("value"), Throw>>, <<>>),
    Listener(<<>>, <<RespondWith("resolve")>>) }

NextTurn ==
  \/ \E l \in TurnListeners : AddEventListener("fetch", l)
  \/ \E d \in Single, req \in Requests, up \in Upstreams : DispatchFetch(d, req, up)
  \/ \E d \in Single : ResumeResponse(d)
  \/ \E d \in Single, ok \in BOOLEAN : ResumeFetch(d, ok)
  \/ \E d \in Single : \E p \in 1..Len(promises[d]) : Settle(d, p)
  \/ \E d \in Single : \E c \in later[d] : RunLater(d, c)

SpecTurn == Init /\ [][NextTurn]_vars

\* the values listener k handed to respondWith while it was invoked, in order
SetIn(d, k) ==
  {p \in Responses(d) : promises[d][p].phase = "sync" /\ promises[d][p].by = k}

\* C14: of the values a listener hands to respondWith in one invocation only
\* the last is awaited: the dispatch resumes as soon as that one has settled,
\* returns that one if it fulfils and fails with its rejection if it rejects,
\* whatever becomes of the earlier ones.
C14_LastValueOfTheTurn ==
  \A d \in Dispatches :
    IsFetch(d) /\ idx[d] > 0 /\ SetIn(d, idx[d]) # {} /\ Throwers(d) = {} =>
      LET last == MaxOf(SetIn(d, idx[d])) IN
      /\ awaited[d] = last
      /\ pc[d] = "awaitResponse" /\ StateOf(d, last) # "pending" =>
           ENABLED ResumeResponse(d)
      /\ outcome[d].type = "response" =>
           outcome[d] = Returned("listener", last, d) /\ StateOf(d, last) = "fulfilled"
      /\ outcome[d].type = "error" /\ outcome[d].err.kind = "rejected" =>
           outcome[d].err = Rejection(last) /\ StateOf(d, last) = "rejected"
      /\ StateOf(d, last) = "fulfilled" => outcome[d].type # "error"

\* C14 witness: the listener called respondWith twice; the first value has
\* rejected, the second was returned
C14_Witness ==
  \E d \in Dispatches :
    /\ IsFetch(d) /\ Cardinality(SetIn(d, idx[d])) = 2
    /\ StateOf(d, MinOf(SetIn(d, idx[d]))) = "rejected"
    /\ outcome[d] = Returned("listener", MaxOf(SetIn(d, idx[d])), d)

\* listener k set a response while it was invoked and then threw
SetAndThrew(d, k) ==
  /\ k \in SeqRange(invoked[d]) /\ k \in Throwers(d)
  /\ \E f \in {"value", "resolve", "reject"} : Calls(IterArray(d)[k], RespondWith(f))

\* C15: when a listener sets a response and then throws in the same invocation
\* the dispatch never returns a listener's response: with the flag unset it
\* fails with the thrown error and the transport is not called, with the flag
\* set it ends in the fallback; no later listener is invoked.
C15_ThrowAfterRespond ==
  \A d \in Dispatches, k \in 1..MaxRegistrations :
    IsFetch(d) /\ SetAndThrew(d, k) =>
      /\ SetIn(d, k) # {} /\ responseMap[d] # 0
      /\ invoked[d] = UpTo(k)
      /\ outcome[d].from # "listener"
      /\ pc[d] \in {"awaitFetch", "done"}
      /\ IF ~passThroughMap[d]
           THEN outcome[d] = Failed(Thrown(k)) /\ TransportCallsOf(d) = {}
         ELSE IF upstreamUrl[d] = NoUpstream
           THEN outcome[d] = Failed(ConfigError) /\ TransportCallsOf(d) = {}
         ELSE /\ Cardinality(TransportCallsOf(d)) = 1
              /\ EndsAsTransport(d, MinOf(TransportCallsOf(d)))

\* C15 witness: listener 2 set the flag and a response and threw; the dispatch
\* returned the upstream response, the slot still holds the listener's value
C15_Witness ==
  \E d \in Dispatches :
    /\ IsFetch(d) /\ SetAndThrew(d, 2) /\ passThroughMap[d]
    /\ responseMap[d] # 0 /\ StateOf(d, responseMap[d]) = "fulfilled"
    /\ outcome[d].type = "response" /\ outcome[d].from = "upstream"

\* ======================================================= scheduled failures
\* the positions of the listeners of arr that throw when invoked
ThrowingIn(arr) == {i \in 1..Len(arr) : Calls(arr[i], Throw)}

\* C16: when a scheduled listener throws, dispatchScheduled has failed with the
\* error of the first listener that throws, within the call: the listeners
\* after it were not invoked, Promise.all was never called on the tasks
\* registered before, and no result array is returned.
C16_ScheduledThrowAborts ==
  \A d \in Dispatches :
    IsScheduled(d) /\ ThrowingIn(IterArray(d)) # {} =>
      LET k == MinOf(ThrowingIn(IterArray(d))) IN
      /\ pc[d] = "done"
      /\ outcome[d] = Failed(Thrown(k))
      /\ invoked[d] = UpTo(k)
      /\ agg[d] = NoAggregate

\* C16 witness: listener 1 registered two tasks, listener 2 threw; the tasks
\* are registered and were not aggregated
C16_Witness ==
  \E d \in Dispatches :
    /\ IsScheduled(d) /\ ThrowingIn(IterArray(d)) = {2}
    /\ Len(waitUntilMap[d]) = 2 /\ agg[d] = NoAggregate
    /\ outcome[d] = Failed(Thrown(2))

\* ========================================================= module handlers
\* simplified request handlers: what they do with ctx, and what they return
ModuleFetchHandlers ==
  { ModuleHandler(<<WaitUntil("resolve", 1)>>, "resolve", 0),
    ModuleHandler(<<PassThroughOnException>>, "reject", 0),
    ModuleHandler(<<Throw>>, "value", 0),
    ModuleHandler(<<>>, "reject", 0) }
\* ordinary fetch listeners registered next to them
PlainListeners ==
  { Listener(<<SetHeader>>, <<>>),
    Listener(<<PassThroughOnException>>, <<>>) }

\* handlers and listeners in one registry, several dispatchFetch calls
NextModuleFetch ==
  \/ \E h \in ModuleFetchHandlers : Quiet /\ AddModuleFetchListener(h)
  \/ \E l \in PlainListeners : Quiet /\ AddEventListener("fetch", l)
  \/ \E d \in Dispatches, c \in ConcurrentCalls :
       InOrder(d) /\ DispatchFetch(d, c.request, c.upstreamUrl)
  \/ \E d \in Dispatches : ResumeResponse(d)
  \/ \E d \in Dispatches, ok \in BOOLEAN : ResumeFetch(d, ok)
  \/ \E d \in Dispatches : \E p \in 1..Len(promises[d]) : Settle(d, p)

SpecModuleFetch == Init /\ [][NextModuleFetch]_vars

IsModuleFetch(l) == l.sync # <<>> /\ l.sync[1].op = "moduleFetch"
\* the ordinary fetch listener that does what handler h does and hands what h
\* returns to respondWith
OrdinaryOf(h) == Listener(h.ops \o <<RespondWith(h.ret)>>, <<>>)
\* the registry arr with an ordinary listener in the place of every handler
Ordinary(arr) ==
  [i \in 1..Len(arr) |->
     IF IsModuleFetch(arr[i]) THEN OrdinaryOf(arr[i].sync[1].handler) ELSE arr[i]]

\* C17: a finished dispatchFetch over a registry with simplified handlers has
\* the outcome of the same call over the registry with an ordinary listener at
\* each handler's position that calls respondWith with what the handler
\* returns: the same listeners invoked, the same response or failure, the same
\* flag and tasks on its own event.
C17_AdapterIsOrdinaryListener ==
  \A d \in Dispatches :
    IsFetch(d) /\ pc[d] = "done" =>
      \E ok \in BOOLEAN :
        LET a == RunAlone(d, started[d].request, upstreamUrl[d],
                          Ordinary(Iterated(d)), ok) IN
        /\ a.pc = "done"
        /\ SameOutcome(d, a)
        /\ invoked[d] = a.invoked
        /\ passThroughMap[d] = a.passThroughMap
        /\ waitUntilMap[d] = a.waitUntilMap
        /\ responseMap[d] = a.responseMap
        /\ [p \in 1..Len(promises[d]) |-> promises[d][p].fate]
             = [p \in 1..Len(a.promises) |-> a.promises[p].fate]

\* C17 witness: after an ordinary listener, the handler at position 2
\* registered a task through ctx and returned the response the dispatch
\* returned; the event of the other dispatch has no task
C17_Witness ==
  \E d, e \in Dispatches :
    /\ IsFetch(d) /\ invoked[d] = <<1, 2>> /\ IsModuleFetch(IterArray(d)[2])
    /\ Len(waitUntilMap[d]) = 1
    /\ outcome[d] = Returned("listener", responseMap[d], d)
    /\ e # d /\ IsFetch(e) /\ pc[e] = "done" /\ waitUntilMap[e] = <<>>

\* simplified timer handlers
ModuleScheduledHandlers ==
  { ModuleHandler(<<WaitUntil("resolve", 1)>>, "value", 2),
    ModuleHandler(<<>>, "resolve", 3),
    ModuleHandler(<<WaitUntil("value", 4), WaitUntil("resolve", 5)>>, "reject", 6),
    ModuleHandler(<<Throw>>, "value", 7) }
\* an ordinary scheduled listener registered next to them
PlainScheduledListeners == { Listener(<<WaitUntil("resolve", 8)>>, <<>>) }

NextModuleScheduled ==
  \/ \E h \in ModuleScheduledHandlers : AddModuleScheduledListener(h)
  \/ \E l \in PlainScheduledListeners : AddEventListener("scheduled", l)
  \/ \E d \in Single : DispatchScheduled(d)
  \/ \E d \in Single : ResumeScheduled(d)
  \/ \E d \in Single : \E p \in 1..Len(promises[d]) : Settle(d, p)

SpecModuleScheduled == Init /\ [][NextModuleScheduled]_vars

IsModuleScheduled(l) == l.sync # <<>> /\ l.sync[1].op = "moduleScheduled"
IsWaitUntil(o) == o.op = "waitUntil"
IsThrow(o) == o.op = "throw"
\* the values and the fates of the waitUntil calls among ops, in order
TaskVals(ops) ==
  LET w == SelectSeq(ops, IsWaitUntil) IN [i \in 1..Len(w) |-> w[i].val]
TaskFates(ops) ==
  LET w == SelectSeq(ops, IsWaitUntil) IN [i \in 1..Len(w) |-> w[i].fate]
HandlerOf(l) == l.sync[1].handler
\* listener l throws when it is invoked
ThrowsWhenInvoked(l) ==
  IF IsModuleScheduled(l) THEN SelectSeq(HandlerOf(l).ops, IsThrow) # <<>>
  ELSE SelectSeq(l.sync, IsThrow) # <<>>

\* what the result array is to hold for the listeners of arr: per listener in
\* registration order the values of the tasks it registered, then, for a
\* handler, the value it returned
RECURSIVE ExpectedVals(_)
ExpectedVals(arr) ==
  IF arr = <<>> THEN <<>>
  ELSE LET l == Head(arr) IN
    (IF IsModuleScheduled(l) THEN TaskVals(HandlerOf(l).ops) \o <<HandlerOf(l).val>>
     ELSE TaskVals(l.sync)) \o ExpectedVals(Tail(arr))
\* how these values settle
RECURSIVE ExpectedFates(_)
ExpectedFates(arr) ==
  IF arr = <<>> THEN <<>>
  ELSE LET l == Head(arr) IN
    (IF IsModuleScheduled(l) THEN TaskFates(HandlerOf(l).ops) \o <<HandlerOf(l).ret>>
     ELSE TaskFates(l.sync)) \o ExpectedFates(Tail(arr))

\* C18: when no listener throws, dispatchScheduled aggregates, per listener in
\* registration order, the tasks the handler registered followed by the
\* handler's return value: it returns exactly these values in this order, and
\* only if none of them rejects; once a return value has rejected the dispatch
\* fails.
C18_ReturnValueIsLastTask ==
  \A d \in Dispatches :
    IsScheduled(d) /\ (\A i \in 1..Len(IterArray(d)) : ~ThrowsWhenInvoked(IterArray(d)[i])) =>
      /\ agg[d].snap = waitUntilMap[d]
      /\ [i \in 1..Len(agg[d].snap) |-> promises[d][agg[d].snap[i]].val]
           = ExpectedVals(IterArray(d))
      /\ [i \in 1..Len(agg[d].snap) |-> promises[d][agg[d].snap[i]].fate]
           = ExpectedFates(IterArray(d))
      /\ outcome[d].type = "results" =>
           /\ outcome[d].vals = ExpectedVals(IterArray(d))
           /\ "reject" \notin SeqRange(ExpectedFates(IterArray(d)))
      /\ (\E p \in Tasks(d) : StateOf(d, p) = "rejected") =>
           /\ agg[d].state = "rejected"
           /\ pc[d] = "done" => outcome[d].type = "error"
      /\ outcome[d].type = "error" =>
           \E p \in Tasks(d) : StateOf(d, p) = "rejected" /\ outcome[d].err = Rejection(p)

\* C18 witness: the first handler registered the task yielding 1 and returned
\* 2, the second returned a promise of 3; the dispatch returned <<1, 2, 3>>
C18_Witness ==
  \E d \in Dispatches :
    /\ IsScheduled(d) /\ Len(IterArray(d)) = 2
    /\ \A i \in 1..2 : IsModuleScheduled(IterArray(d)[i])
    /\ outcome[d] = Results(<<1, 2, 3>>)

\* ================================================ tasks registered too late
\* listeners whose continuations register background tasks after they returned
LateFetchListeners ==
  { Listener(<<WaitUntil("resolve", 1), RespondWith("value")>>, <<WaitUntil("reject", 2)>>),
    Listener(<<>>, <<WaitUntil("resolve", 3)>>) }
LateScheduledListeners ==
  { Listener(<<WaitUntil("resolve", 1)>>, <<WaitUntil("reject", 2)>>),
    Listener(<<WaitUntil("value", 3)>>, <<WaitUntil("resolve", 4)>>) }

NextLate ==
  \/ \E l \in LateFetchListeners : AddEventListener("fetch", l)
  \/ \E l \in LateScheduledListeners : AddEventListener("scheduled", l)
  \/ \E d \in Single, c \in ConcurrentCalls : DispatchFetch(d, c.request, c.upstreamUrl)
  \/ \E d \in Single : ResumeResponse(d)
  \/ \E d \in Single, ok \in BOOLEAN : ResumeFetch(d, ok)
  \/ \E d \in Single : DispatchScheduled(d)
  \/ \E d \in Single : ResumeScheduled(d)
  \/ \E d \in Single : \E p \in 1..Len(promises[d]) : Settle(d, p)
  \/ \E d \in Single : \E c \in later[d] : RunLater(d, c)
  \/ \E d \in Single : CallAccessor(d)

SpecLate == Init /\ [][NextLate]_vars

\* the aggregates of dispatch d: the calls of the accessor, and the Promise.all
\* of dispatchScheduled once it is made
AggregatesOf(d) ==
  SeqRange(calls[d]) \cup (IF agg[d].state = "none" THEN {} ELSE {agg[d]})

\* an aggregate is decided by the tasks of its snapshot alone
SnapshotDecides ==
  \A d \in Dispatches :
    /\ \A a \in AggregatesOf(d) :
         /\ Len(a.snap) <= Len(waitUntilMap[d])
         /\ a.snap = SubSeq(waitUntilMap[d], 1, Len(a.snap))
         /\ a.state = "fulfilled" <=> \A p \in SeqRange(a.snap) : StateOf(d, p) = "fulfilled"
         /\ a.state = "fulfilled" => a.vals = [i \in 1..Len(a.snap) |-> promises[d][a.snap[i]].val]
         /\ a.state = "rejected" <=> \E p \in SeqRange(a.snap) : StateOf(d, p) = "rejected"
         /\ a.state = "rejected" =>
              \E p \in SeqRange(a.snap) : StateOf(d, p) = "rejected" /\ a.err = Rejection(p)
    /\ IsScheduled(d) /\ agg[d].state # "none" =>
         /\ SeqRange(agg[d].snap) = {p \in Tasks(d) : promises[d][p].phase = "sync"}
         /\ outcome[d].type = "results" => outcome[d].vals = agg[d].vals
         /\ outcome[d].type = "error" => outcome[d].err = agg[d].err

\* an aggregate takes the task list as it is when it is made, and keeps it
SnapshotIsTaken ==
  \A d \in Dispatches :
    /\ Len(calls'[d]) >= Len(calls[d])
    /\ \A k \in 1..Len(calls[d]) : calls'[d][k].snap = calls[d][k].snap
    /\ \A k \in (Len(calls[d]) + 1)..Len(calls'[d]) :
         calls'[d][k].snap = waitUntilMap[d] /\ waitUntilMap'[d] = waitUntilMap[d]
    /\ agg[d].state # "none" => agg'[d].snap = agg[d].snap
    /\ agg[d].state = "none" /\ agg'[d].state # "none" => agg'[d].snap = waitUntilMap'[d]

\* C19: the result of dispatchScheduled and every call of the accessor of a
\* fetch response cover the tasks in the list at the moment the aggregate is
\* made, those registered after the response was returned included, and no
\* task registered afterwards: such a task is not waited for, its value is not
\* in the result and its rejection does not reject the aggregate.
C19_AggregationIsASnapshot == []SnapshotDecides /\ [][SnapshotIsTaken]_vars

\* C19 witness: the accessor was called with one task registered and has
\* fulfilled; a task registered after the call has rejected
C19_Witness ==
  \E d \in Dispatches : \E k \in 1..Len(calls[d]) :
    /\ calls[d][k].state = "fulfilled" /\ calls[d][k].vals = <<1>>
    /\ \E p \in Tasks(d) \ SeqRange(calls[d][k].snap) : StateOf(d, p) = "rejected"

\* ================================================== reset during a dispatch
ResetListeners ==
  { Listener(<<SetHeader>>, <<>>),
    Listener(<<PassThroughOnException>>, <<>>),
    Listener(<<RespondWith("resolve")>>, <<>>),
    Listener(<<Throw>>, <<>>) }

\* dispatch d is suspended at the await of line 149 between two turns: the
\* array its loop iterates has listeners it has not invoked yet
BetweenTurns(d) == pc[d] = "awaitResponse" /\ idx[d] < Len(IterArray(d))

\* one dispatchFetch; the registry is reset while it is suspended between turns
NextReset ==
  \/ \E l \in ResetListeners : AddEventListener("fetch", l)
  \/ (\E d \in Single : BetweenTurns(d)) /\ ResetEventListeners
  \/ \E d \in Single, req \in Requests, up \in Upstreams : DispatchFetch(d, req, up)
  \/ \E d \in Single : ResumeResponse(d)
  \/ \E d \in Single, ok \in BOOLEAN : ResumeFetch(d, ok)
  \/ \E d \in Single : \E p \in 1..Len(promises[d]) : Settle(d, p)

SpecReset == Init /\ [][NextReset]_vars

\* the loop of dispatch d has lost the registry: resetEventListeners was
\* called after the dispatch started on a registered array
LostRegistry(d) == IsFetch(d) /\ ~iter[d].live /\ started[d].registered > 0

\* the loop goes through the array it was suspended on: it invokes its
\* listeners in order and ends without a response or a failure only when it
\* has invoked them all
KeepsItsSequence ==
  \A d \in Dispatches :
    LostRegistry(d) =>
      /\ IterArray(d) = iter[d].arr /\ Len(iter[d].arr) >= started[d].registered
      /\ invoked[d] = UpTo(Len(invoked[d]))
      /\ Len(invoked[d]) <= Len(iter[d].arr)
      /\ Exhausted(d) => invoked[d] = UpTo(Len(iter[d].arr))
      /\ pc[d] = "awaitResponse" =>
           /\ idx[d] = Len(invoked[d])
           /\ awaited[d] = 0 => ENABLED ResumeResponse(d)

\* a reset changes nothing of a dispatch in flight, and the array of a loop
\* that has lost the registry never changes
ResetLeavesDispatches ==
  \A d \in Dispatches :
    /\ resets' # resets =>
         /\ IterArray(d)' = IterArray(d)
         /\ <<pc[d], idx[d], awaited[d], invoked[d], outcome[d], responseMap[d],
              passThroughMap[d], waitUntilMap[d], promises[d]>>'
              = <<pc[d], idx[d], awaited[d], invoked[d], outcome[d], responseMap[d],
                  passThroughMap[d], waitUntilMap[d], promises[d]>>
    /\ pc[d] # "idle" /\ ~iter[d].live => IterArray(d)' = IterArray(d)

\* C20: resetEventListeners called while dispatchFetch is suspended between
\* two turns leaves the dispatch as it is, the array its loop iterates
\* included: the loop goes on to invoke the remaining listeners of that array
\* in order, whatever is registered afterwards.
C20_ResetDoesNotReachTheLoop == []KeepsItsSequence /\ [][ResetLeavesDispatches]_vars

\* C20 witness: the registry was reset while the dispatch was suspended after
\* listener 1 of two; listener 2 was invoked afterwards and threw, the registry
\* is empty
C20_Witness ==
  \E d \in Dispatches :
    /\ LostRegistry(d) /\ Len(iter[d].arr) = 2
    /\ invoked[d] = <<1, 2>> /\ listeners["fetch"] = <<>>
    /\ outcome[d] = Failed(Thrown(2))

====
